---- MODULE Spec2Model ----
(***************************************************************************)
(* Verification model of the resource catalog (ResourceFolderModel), the   *)
(* Modrinth pack export pipeline (ModrinthPackExportTask) and the icon     *)
(* directory reconciler (IconList).                                        *)
(*                                                                         *)
(* The catalog's header (fields, signatures, documented contracts) is      *)
(* available; the bodies of its operations are taken from the design       *)
(* document.  The export pipeline is translated from its implementation.   *)
(***************************************************************************)
EXTENDS FiniteSets, Integers, Sequences, TLC

(***************************************************************************)
(* Bounds                                                                  *)
(***************************************************************************)
NumIds == 2        \* distinct resource file names that can exist in the folder
MaxTicket == 2     \* parse tasks dispatched in one exploration

NumPaths == 2      \* relative paths that can exist under the export root
NumHashes == 2     \* distinct file contents (one sha512 digest each)
MaxAborts == 2     \* abort() calls on one export task

Ids == 1..NumIds
Paths == 1..NumPaths
Hashes == 1..NumHashes

NoTicket == 0 - 1  \* "no ticket / no metadata yet"

VARIABLES
    \* ---- ResourceFolderModel ------------------------------------------
    m_resources,               \* QList<Resource::Ptr>
    m_resources_index,         \* QMap<QString,int>: id -> row
    m_active_parse_tasks,      \* QMap<int,Task::Ptr>: ticket -> task
    m_next_resolution_ticket,  \* std::atomic<int>
    m_current_update_task,     \* Task::Ptr: "null" or the task's status
    updateScan,                \* file set the running update task has scanned
    updateTasksRunning,        \* update tasks started and not yet finished
    parseTasks,                \* parse tasks running in the helper thread
    updateBaseChanged,         \* the catalog is no longer what it was when the running update() was called
    catLast,                   \* the catalog operation that ran last
    \* ---- export root, as ModrinthPackExportTask sees it -----------------
    fileClass,                 \* what each relative path is (see FileClasses)
    hashOf,                    \* content of each file: its sha512 digest
    sideOf,                    \* the side its metadata declares (Metadata::ModSide)
    modelUpdate,               \* update task of the instance's resource list: "null" or "running"
    m_scheduled_update,        \* bool m_scheduled_update of that resource list
    \* ---- ModrinthPackExportTask -----------------------------------------
    optionalFiles,             \* bool optionalFiles (constructor argument)
    pc,                        \* where the task's control is
    abortable,                 \* Task::setAbortable
    files,                     \* QFileInfoList files (relative paths)
    pendingHashes,             \* QMap<QString,QString>: path -> sha512
    resolvedFiles,             \* QMap<QString,ResolvedFile>
    task,                      \* Task::Ptr task: "null", "api" or "zip"
    apiTask,                   \* state of the currentVersions request
    zipTask,                   \* state of the ExportToZipTask
    statusLog,                 \* setStatus texts, in order
    emitted,                   \* emitSucceeded / emitFailed / emitAborted calls, in order
    apiRequests,               \* hash lists passed to api.currentVersions, in order
    apiResponse,               \* what the request ended with
    stagedLog,                 \* pendingHashes as it was when hashing had finished
    listResult,                \* how the recursive file listing ended
    zipJobs,                   \* ExportToZipTask objects started, in order
    updatesRequested,          \* calls of model->update()
    updateReturned,            \* what the last of them returned ("none" before the first)
    hashed,                    \* paths whose content has been read for hashing
    abortCalls,                \* abort() calls so far
    stepLog,                   \* states of the stepProgress events of the archive step, in order
    firstRun,                  \* what an earlier run of the same task object ended with
    exLast,                    \* the export operation that ran last
    \* ---- the icon folder and its watcher ---------------------------------
    fsDirs,                    \* directories that exist
    fsFiles,                   \* icon files that exist
    watched,                   \* paths registered with m_watcher (files and directories)
    \* ---- IconList --------------------------------------------------------
    m_dir,                     \* QDir m_dir: the watched root
    m_icons,                   \* QVector<MMCIcon>
    m_nameIndex,               \* QMap<QString,int>: key -> row
    m_isWatching,              \* bool
    icLast                     \* the icon list operation that ran last

catVars == <<m_resources, m_resources_index, m_active_parse_tasks,
             m_next_resolution_ticket, m_current_update_task, updateScan,
             updateTasksRunning, parseTasks, updateBaseChanged, catLast>>

envVars == <<fileClass, hashOf, sideOf, modelUpdate, m_scheduled_update>>

exVars == <<optionalFiles, firstRun, pc, abortable, files, pendingHashes, resolvedFiles, task, apiTask, zipTask,
            statusLog, emitted, apiRequests, apiResponse, stagedLog, listResult, zipJobs,
            updatesRequested, updateReturned, hashed, abortCalls, stepLog, exLast>>

iconVars == <<fsDirs, fsFiles, watched, m_dir, m_icons, m_nameIndex, m_isWatching, icLast>>

vars == <<catVars, envVars, exVars, iconVars>>

(***************************************************************************)
(* Helpers                                                                 *)
(***************************************************************************)
Range(s) == {s[k] : k \in DOMAIN s}

RECURSIVE SetToSeq(_)
SetToSeq(S) ==
    IF S = {} THEN <<>>
    ELSE LET m == CHOOSE x \in S : \A y \in S : x <= y
         IN <<m>> \o SetToSeq(S \ {m})

\* s without the element at position k
RemoveAt(s, k) == [j \in 1..(Len(s) - 1) |-> IF j < k THEN s[j] ELSE s[j + 1]]

\* restriction of the map f to the keys in K
Restrict(f, K) == [x \in (DOMAIN f) \cap K |-> f[x]]

ResourceIds(s) == {s[k].id : k \in DOMAIN s}

(***************************************************************************)
(* ResourceFolderModel                                                     *)
(***************************************************************************)

\* a Resource as created by createResource(info): not parsed, no metadata.
\* obj is the identity of the object (the Resource::Ptr): every new Resource is
\* handed to resolveResource at once, so the ticket of its first parse task
\* names it.
createResource(i, o) ==
    [id |-> i, obj |-> o, state |-> "Unparsed", ticket |-> NoTicket, meta |-> NoTicket]

\* m_resources_index patched incrementally: the keys of removed rows are
\* dropped and new rows entered, the rows after a removal keep their old number
RebuildIndexPatched(s) ==
    [i \in ResourceIds(s) |->
        IF i \in DOMAIN m_resources_index
        THEN m_resources_index[i]
        ELSE CHOOSE k \in DOMAIN s : s[k].id = i]

\* m_resources_index rebuilt from the sequence: id -> row
RebuildIndex(s) ==
    [i \in ResourceIds(s) |-> CHOOSE k \in DOMAIN s : s[k].id = i]

\* removing a resource leaves the tickets of its parse tasks in the map
InvalidateTicketsKept(active, gone) == active

\* tickets that stay valid once the resource objects in `gone` left the catalog
InvalidateTickets(active, gone) ==
    Restrict(active, {t \in DOMAIN active : active[t].obj \notin gone})

\* erase the rows of the ids in `ids`, highest row first
RECURSIVE EraseRows(_, _)
EraseRows(s, ids) ==
    IF \A k \in DOMAIN s : s[k].id \notin ids THEN s
    ELSE LET k == CHOOSE j \in DOMAIN s :
                     /\ s[j].id \in ids
                     /\ \A l \in DOMAIN s : s[l].id \in ids => l <= j
         IN EraseRows(RemoveAt(s, k), ids)

\* append one fresh Resource per id of `ids`
RECURSIVE InsertResources(_, _)
InsertResources(s, ids) ==
    IF ids = <<>> THEN s
    ELSE InsertResources(Append(s, createResource(Head(ids), NoTicket)), Tail(ids))

\* applyUpdates hands every row to resolveResource
NeedsParseAll(s) == DOMAIN s

\* rows that applyUpdates hands to resolveResource
NeedsParse(s) == {k \in DOMAIN s : s[k].state # "Parsed"}

\* every dispatch of a batch is given the current counter value
TicketForSame(s, k, next) == next

\* ticket minted for row k when the rows of NeedsParse(s) are dispatched in row order
TicketFor(s, k, next) == next + Cardinality({j \in NeedsParse(s) : j < k})

\* resolveResource applied to every row that needs a parse
DispatchAll(s, next) ==
    [k \in DOMAIN s |->
        IF k \in NeedsParse(s)
        THEN [s[k] EXCEPT !.state = "Parsing", !.ticket = TicketFor(s, k, next),
                          !.obj = IF @ = NoTicket THEN TicketFor(s, k, next) ELSE @]
        ELSE s[k]]

DispatchedTasks(s, next) ==
    {[ticket |-> TicketFor(s, k, next), id |-> s[k].id, obj |-> DispatchAll(s, next)[k].obj] :
        k \in NeedsParse(s)}

\* the callback ignores the ticket and updates whatever row the id resolves to
onParseResultUnchecked(ticket, id, obj, st) ==
    IF id \in DOMAIN m_resources_index
    THEN [m_resources EXCEPT ![m_resources_index[id]] =
             [@ EXCEPT !.state = st, !.meta = obj]]
    ELSE m_resources

\* onParseSucceeded / onParseFailed: the value of m_resources afterwards
onParseResult(ticket, id, obj, st) ==
    IF ticket \notin DOMAIN m_active_parse_tasks
    THEN m_resources
    ELSE [m_resources EXCEPT ![m_resources_index[id]] =
             [@ EXCEPT !.state = st, !.meta = obj]]

\* a failed update empties the catalog
resourcesAfterFailedUpdateCleared == <<>>

\* the resource sequence once a failed update has been handled: as it is
resourcesAfterFailedUpdate == m_resources

\* which Resource objects the catalog holds, in row order, and its index map
CatalogShape ==
    <<[k \in DOMAIN m_resources |-> [id |-> m_resources[k].id, obj |-> m_resources[k].obj]],
      m_resources_index>>

\* update() starts a task whether or not one is in flight
updateStartsUnguarded == TRUE

\* update(): may a new update task be started?
updateStarts == m_current_update_task = "null"

\* what the last catalog operation was: its name, its return value, whether it
\* was a completion bearing a stale ticket (and for which id), and whether it
\* removed a row in front of a surviving one; for a bulk removal also the rows
\* that were requested and the rows whose removal succeeded
CatOp(op, ret, stale, id, shift) ==
    [op |-> op, ret |-> ret, stale |-> stale, id |-> id, shift |-> shift,
     rows |-> {}, ok |-> {}]

\* for every set of positions: the orders in which it can be handed to a
\* bulk operation
OrdersTable ==
    [S \in SUBSET Ids |-> {o \in [1..Cardinality(S) -> S] : Range(o) = S}]

Orders(S) == OrdersTable[S]

\* the positions are worked through in the order they were handed in
sortDescendingSkipped(order) == order

\* for every order of positions: the same positions, highest first
SortedTable ==
    [o \in UNION {OrdersTable[S] : S \in SUBSET Ids} |->
        [k \in DOMAIN o |-> SetToSeq(Range(o))[Len(o) + 1 - k]]]

\* the positions of a bulk removal, highest first
sortDescending(order) == SortedTable[order]

\* the rows of `order` are removed one after the other; a position whose file
\* could not be deleted (not in ok) or that no longer exists is left alone
RECURSIVE removeRows(_, _, _)
removeRows(s, order, ok) ==
    IF order = <<>> THEN s
    ELSE IF Head(order) \in ok /\ Head(order) \in DOMAIN s
         THEN removeRows(RemoveAt(s, Head(order)), Tail(order), ok)
         ELSE removeRows(s, Tail(order), ok)

\* did a bulk operation succeed for every requested item?
allSucceeded(rows, ok) == ok = rows

\* erasing the rows of `ids` moves a surviving row
RowsShift(s, ids) ==
    \E k, j \in DOMAIN s : k < j /\ s[k].id \in ids /\ s[j].id \notin ids

\* the export task and its root are not part of the catalog's behaviour
ExportIdle == UNCHANGED <<envVars, exVars, iconVars>>

CatInit ==
    /\ m_resources = <<>>
    /\ m_resources_index = <<>>
    /\ m_active_parse_tasks = <<>>
    /\ m_next_resolution_ticket = 0
    /\ m_current_update_task = "null"
    /\ updateScan = {}
    /\ updateTasksRunning = 0
    /\ parseTasks = {}
    /\ updateBaseChanged = FALSE
    /\ catLast = CatOp("init", TRUE, FALSE, 0, FALSE)

\* bool update()
Update ==
    /\ ExportIdle
    /\ updateTasksRunning < 2
    /\ IF updateStarts
       THEN /\ m_current_update_task' = "running"
            /\ updateTasksRunning' = updateTasksRunning + 1
            /\ updateBaseChanged' = FALSE
            /\ catLast' = CatOp("update", TRUE, FALSE, 0, FALSE)
       ELSE /\ UNCHANGED <<m_current_update_task, updateTasksRunning, updateBaseChanged>>
            /\ catLast' = CatOp("update", FALSE, FALSE, 0, FALSE)
    /\ UNCHANGED <<m_resources, m_resources_index, m_active_parse_tasks,
                   m_next_resolution_ticket, updateScan, parseTasks>>

\* the update task scans the folder and finds some set of files there (the
\* folder changes freely between scans), or fails to
UpdateTaskRun ==
    /\ ExportIdle
    /\ m_current_update_task = "running"
    /\ \/ /\ m_current_update_task' = "succeeded"
          /\ updateScan' \in SUBSET Ids
       \/ /\ m_current_update_task' = "failed"
          /\ UNCHANGED updateScan
    /\ catLast' = CatOp("scan", TRUE, FALSE, 0, FALSE)
    /\ UNCHANGED <<m_resources, m_resources_index, m_active_parse_tasks,
                   m_next_resolution_ticket, updateTasksRunning, parseTasks, updateBaseChanged>>

\* onUpdateSucceeded(): applyUpdates(current_set, new_set, new_resources)
OnUpdateSucceeded ==
    /\ ExportIdle
    /\ m_current_update_task = "succeeded"
    /\ LET current_set == ResourceIds(m_resources)
           new_set     == updateScan
           removed     == current_set \ new_set
           added       == SetToSeq(new_set \ current_set)
           gone        == {m_resources[k].obj : k \in {j \in DOMAIN m_resources :
                                                        m_resources[j].id \in removed}}
           kept        == EraseRows(m_resources, removed)
           inserted    == InsertResources(kept, added)
           next        == m_next_resolution_ticket
           tasks       == DispatchedTasks(inserted, next)
       IN /\ next + Cardinality(tasks) <= MaxTicket
          /\ m_resources' = DispatchAll(inserted, next)
          /\ m_resources_index' = RebuildIndex(inserted)
          /\ m_active_parse_tasks' =
                 [t \in DOMAIN InvalidateTickets(m_active_parse_tasks, gone)
                          \cup {x.ticket : x \in tasks} |->
                     IF t \in DOMAIN m_active_parse_tasks
                     THEN m_active_parse_tasks[t]
                     ELSE CHOOSE x \in tasks : x.ticket = t]
          /\ parseTasks' = parseTasks \cup tasks
          /\ m_next_resolution_ticket' = next + Cardinality(tasks)
    /\ m_current_update_task' = "null"
    /\ updateTasksRunning' = updateTasksRunning - 1
    /\ updateScan' = {}
    /\ updateBaseChanged' = FALSE
    /\ catLast' = CatOp("updateSucceeded", TRUE, FALSE, 0,
                         RowsShift(m_resources, ResourceIds(m_resources) \ updateScan))

\* onUpdateFailed(): the catalog keeps its last-known-good state
OnUpdateFailed ==
    /\ ExportIdle
    /\ m_current_update_task = "failed"
    /\ m_current_update_task' = "null"
    /\ updateTasksRunning' = updateTasksRunning - 1
    /\ m_resources' = resourcesAfterFailedUpdate
    /\ m_resources_index' = RebuildIndex(resourcesAfterFailedUpdate)
    /\ updateBaseChanged' = FALSE
    /\ catLast' = CatOp("updateFailed", TRUE, FALSE, 0, FALSE)
    /\ UNCHANGED <<m_active_parse_tasks, m_next_resolution_ticket, updateScan,
                   parseTasks>>

\* a parse task finishes: onParseSucceeded / onParseFailed(ticket, resource_id),
\* then the finished handler drops the ticket
ParseComplete ==
    \E t \in parseTasks : \E st \in {"Parsed", "Failed"} :
        /\ ExportIdle
        /\ m_resources' = onParseResult(t.ticket, t.id, t.obj, st)
        /\ m_active_parse_tasks' =
               Restrict(m_active_parse_tasks, DOMAIN m_active_parse_tasks \ {t.ticket})
        /\ parseTasks' = parseTasks \ {t}
        /\ catLast' = CatOp("parseDone", TRUE,
                             t.ticket \notin DOMAIN m_active_parse_tasks, t.id, FALSE)
        /\ UNCHANGED <<m_resources_index, m_next_resolution_ticket,
                       m_current_update_task, updateScan, updateTasksRunning>>
        /\ updateBaseChanged' =
               (updateBaseChanged \/
                   (m_current_update_task # "null" /\ CatalogShape' # CatalogShape))

\* deleteResources(indexes): the positions arrive in some order and are removed
\* highest first; `okRows` are the rows whose file could be deleted
DeleteResources ==
    \E rows \in (SUBSET DOMAIN m_resources) \ {{}} : \E okRows \in SUBSET rows :
    \E order \in Orders(rows) :
        LET ids  == {m_resources[k].id : k \in okRows}
            kept == removeRows(m_resources, sortDescending(order), okRows)
            gone == {m_resources[k].obj : k \in okRows}
        IN /\ m_resources' = kept
           /\ m_resources_index' = RebuildIndex(kept)
           /\ m_active_parse_tasks' = InvalidateTickets(m_active_parse_tasks, gone)
           /\ ExportIdle
           /\ catLast' = [CatOp("delete", allSucceeded(rows, okRows), FALSE, 0,
                                 RowsShift(m_resources, ids))
                              EXCEPT !.rows = rows, !.ok = okRows]
           /\ updateBaseChanged' =
                  (updateBaseChanged \/
                      (m_current_update_task # "null" /\ CatalogShape' # CatalogShape))
           /\ UNCHANGED <<m_next_resolution_ticket, m_current_update_task, updateScan,
                          updateTasksRunning, parseTasks>>

CatNext ==
    \/ Update
    \/ UpdateTaskRun
    \/ OnUpdateSucceeded
    \/ OnUpdateFailed
    \/ ParseComplete
    \/ DeleteResources

(***************************************************************************)
(* The export root                                                         *)
(***************************************************************************)

\* What a relative path under the export root can be:
\*   absent              no such file
\*   plain               a file outside the resource folders, or of another type
\*   excluded            a plain file the filter predicate excludes
\*   modNoMeta           a tracked resource file without metadata
\*   modForeign          tracked, metadata whose URL is empty or on another host
\*   modLocal            tracked, metadata URL on an allowed host, readable
\*   modLocalUnreadable  as modLocal, but the file cannot be opened or read
\*   modLocalExcluded    as modLocal, but the filter predicate excludes it
FileClasses ==
    {"absent", "plain", "excluded", "modNoMeta", "modForeign", "modLocal",
     "modLocalUnreadable", "modLocalExcluded"}

ModClasses == {"modNoMeta", "modForeign", "modLocal", "modLocalUnreadable", "modLocalExcluded"}

\* the digest Hashing::hash yields for a file that cannot be read
EmptyHash == 0

\* filter(relativePath): the externally supplied exclusion predicate
filter(p) == fileClass[p] \in {"excluded", "modLocalExcluded"}

\* the resources model->allResources() yields once the catalog has updated
allResources == {p \in Paths : fileClass[p] \in ModClasses}

\* resource->metadata() != nullptr, and its URL is non-empty and on an allowed host
hasAllowedMetadata(p) ==
    fileClass[p] \in {"modLocal", "modLocalUnreadable", "modLocalExcluded"}

\* every file can be opened and read
readableAlways(p) == TRUE

\* file.open(ReadOnly) and file.readAll() succeed
readable(p) == fileClass[p] # "modLocalUnreadable"

\* path under one of the resource folders, with an accepted extension
\* (jar, litemod, zip, optionally followed by .disabled)
eligible(p) == fileClass[p] \in ModClasses

\* Hashing::hash(path, Sha512)
fileSha512(p) == IF readable(p) THEN hashOf[p] ELSE EmptyHash

\* MMCZip::collectFileListRecursively(gameRoot, nullptr, &files, filter)
collectFileList == {p \in Paths : fileClass[p] # "absent" /\ ~filter(p)}

\* the content of a file matters only if the task reads it: a tracked resource
\* file that is readable and not excluded
contentRead(c) == c \in {"modNoMeta", "modForeign", "modLocal"}

\* Metadata::ModSide
ClientSide    == "ClientSide"
ServerSide    == "ServerSide"
UniversalSide == "UniversalSide"
Sides == {ClientSide, ServerSide, UniversalSide}

\* the side of a ResolvedFile built without one (value-initialised)
SideUnset == "unset"

\* the declared side matters only if the task reads it: for a resource that is
\* resolved from the local index
sideRead(c) == c = "modLocal"

\* relative paths are numbered; those with an even number end in ".disabled"
endsInDisabled(p) == p % 2 = 0

\* the path without its last suffix: the name of no file under the root
completeBaseName(p) == NumPaths + p

EnvInit ==
    /\ fileClass \in [Paths -> FileClasses]
    /\ hashOf \in [Paths -> Hashes]
    /\ sideOf \in [Paths -> Sides]
    /\ \A p \in Paths : ~contentRead(fileClass[p]) => hashOf[p] = 1
    /\ \A p \in Paths : ~sideRead(fileClass[p]) => sideOf[p] = UniversalSide
    /\ modelUpdate \in {"null", "running"}
    /\ m_scheduled_update = FALSE

(***************************************************************************)
(* ModrinthPackExportTask                                                  *)
(***************************************************************************)
EmptyMap == <<>>

StatusSearching == "Searching for files..."
StatusHashes    == "Finding file hashes..."
StatusVersions  == "Finding versions for hashes..."
StatusAdding    == "Adding files..."

MsgCouldNotSearch == "Could not search for files"
MsgParseFailed    == "Failed to parse versions response"

\* reasons a currentVersions request or the archive writer can fail with
TransportReasons == {"Network error", "Request timed out"}
ZipReasons == {"Could not write archive"}

\* what the request can end with: a payload that is no JSON document, or a
\* document; for every digest the document has no record ("absent"), a record
\* none of whose files carries the digest ("nomatch"), or a record with a file
\* carrying it ("match").  No record carries the digest of nothing.
Documents ==
    {d \in [Hashes \cup {EmptyHash} -> {"absent", "nomatch", "match"}] : d[EmptyHash] = "absent"}

AbsentDocument == [h \in Hashes \cup {EmptyHash} |-> "absent"]

\* how a request ended: kind is "none" (not ended), "transport" (failed with
\* reason), "unparsable" or "document" (answered with doc)
Response(kind, reason, doc) == [kind |-> kind, reason |-> reason, doc |-> doc]

Emission(kind, reason) == [kind |-> kind, reason |-> reason]

ExOp(op, ret) == [op |-> op, ret |-> ret]

\* collectFiles leaves the resolved-file table of an earlier run in place
resolvedFilesKept(resolved) == resolved

\* collectFiles: resolvedFiles.clear()
resolvedFilesCleared(resolved) == EmptyMap

\* map[key] = value for every entry of `new`
insertAll(map, new) ==
    [p \in DOMAIN map \cup DOMAIN new |-> IF p \in DOMAIN new THEN new[p] ELSE map[p]]

\* collectHashes, first loop: resources resolved from the local index
resolveFromIndex(resources) ==
    [p \in {q \in resources : hasAllowedMetadata(q) /\ ~filter(q) /\ readable(q)} |->
        [origin |-> "index", sha512 |-> hashOf[p], side |-> sideOf[p]]]

\* every eligible file is staged, resolved from the index or not
stagePendingAll(fs, resolved) ==
    [p \in {q \in fs : eligible(q)} |-> fileSha512(p)]

\* collectHashes, second loop: files staged for the batched remote query
stagePending(fs, resolved) ==
    [p \in {q \in fs : q \notin DOMAIN resolved /\ eligible(q)} |-> fileSha512(p)]

\* pendingHashes.values(): the digests in key order, one per staged file
requestHashes(pending) ==
    LET keys == SetToSeq(DOMAIN pending)
    IN [k \in 1..Len(keys) |-> pending[keys[k]]]

\* makeApiRequest always issues the request
noRequestNeededNever(pending) == FALSE

\* makeApiRequest: pendingHashes.isEmpty()
noRequestNeeded(pending) == DOMAIN pending = {}

\* a record is taken for a staged file whether or not one of its files matches
responseMatchesAnyRecord(doc, h) == doc[h] # "absent"

\* parseApiResponse: doc[hash] is a non-empty object and one of its files
\* carries the digest
responseMatches(doc, h) == doc[h] = "match"

\* parseApiResponse, the loop over pendingHashes: resolvedFiles afterwards
parseApiResponse(pending, resolved, doc) ==
    LET matched == {p \in DOMAIN pending : responseMatches(doc, pending[p])}
    IN [p \in DOMAIN resolved \cup matched |->
           IF p \in matched
           THEN [origin |-> "api", sha512 |-> pending[p], side |-> SideUnset]
           ELSE resolved[p]]

EnvRequired    == "required"
EnvOptional    == "optional"
EnvUnsupported == "unsupported"

\* generateIndex: is the file a disabled mod that is to be listed as optional?
detectDisabled(optional, p) == optional /\ endsInDisabled(p)

\* generateIndex: fileOut["path"]
indexPath(optional, p) == IF detectDisabled(optional, p) THEN completeBaseName(p) ELSE p

\* generateIndex: env["client"]
envClient(optional, p) == IF detectDisabled(optional, p) THEN EnvOptional ELSE EnvRequired

\* a file with a declared side is unsupported on the server
envServerAnySide(optional, p, side) ==
    IF side \in Sides THEN EnvUnsupported ELSE envClient(optional, p)

\* generateIndex: env["server"]
envServer(optional, p, side) ==
    IF side = ClientSide THEN EnvUnsupported ELSE envClient(optional, p)

\* generateIndex: one file entry per resolved file
generateIndex(resolved, optional) ==
    LET keys == SetToSeq(DOMAIN resolved)
    IN [k \in 1..Len(keys) |->
           [path   |-> indexPath(optional, keys[k]),
            sha512 |-> resolved[keys[k]].sha512,
            origin |-> resolved[keys[k]].origin,
            client |-> envClient(optional, keys[k]),
            server |-> envServer(optional, keys[k], resolved[keys[k]].side)]]

\* the archive writer is given nothing to leave out
excludeFilesNone(resolved) == {}

\* zipTask->setExcludeFiles(resolvedFiles.keys())
excludeFiles(resolved) == DOMAIN resolved

\* collectHashes leaves the task non-abortable
abortableAfterHashingNever == FALSE

\* collectHashes: setAbortable(true) once the hashes are staged, just before
\* makeApiRequest()
abortableAfterHashing == TRUE

\* collectFiles goes on to collectHashes whatever the listing returned
listingFailureStopsNever(ok) == FALSE

\* collectFiles: emitFailed and return when the listing failed
listingFailureStops(ok) == ~ok

\* parseApiResponse goes on to buildZip after an unparsable payload
parseFailureStopsNever(parsable) == FALSE

\* parseApiResponse: the catch block emits the failure and returns
parseFailureStops(parsable) == ~parsable

\* the failure of the request is reported with a message of the task's own
apiFailureReasonOwn(reason) == MsgParseFailed

\* connect(task, &Task::failed, this, &emitFailed): the reason is passed on
apiFailureReason(reason) == reason

\* buildZip: succeeded -> emitSucceeded, aborted -> emitAborted,
\* failed(reason) -> emitFailed(reason)
zipOutcomeEmission(outcome, reason) ==
    Emission(outcome, IF outcome = "failed" THEN reason ELSE "")

StepSucceeded == "Succeeded"
StepFailed    == "Failed"

\* buildZip: the stepProgress events of the handlers of the archive writer's
\* end.  The finished handler reports Succeeded; the failed handler reports
\* Failed.
stepReports(outcome, finishedFirst) ==
    IF outcome = "failed"
    THEN IF finishedFirst THEN <<StepSucceeded, StepFailed>> ELSE <<StepFailed, StepSucceeded>>
    ELSE <<StepSucceeded>>

\* bool update(): a new update task starts unless one is underway
updateStartsTask(running) == running = "null"

\* the signals of the resource list
UpdateFinished == "updateFinished"
ParseFinished  == "parseFinished"
NoSignal       == "none"

\* what the resource list emits when its update task has ended
updateEndSignal(again) == IF again THEN NoSignal ELSE UpdateFinished

\* the loop waits for another signal of the resource list
loopQuitsOnParseFinished(signal) == signal = ParseFinished

\* collectHashes: connect(model, updateFinished, &loop, quit)
loopQuits(signal) == signal = UpdateFinished

\* the files the archive writer puts under overrides/: the collected files
\* that are not excluded
overrides(job) == job.files \ job.exclude

\* no run of the task object has ended yet
NoRun == [ended |-> FALSE, response |-> Response("none", "", AbsentDocument)]

ExInit ==
    /\ optionalFiles \in BOOLEAN
    /\ firstRun = NoRun
    /\ pc = "ready"
    /\ abortable = TRUE
    /\ files = {}
    /\ pendingHashes = EmptyMap
    /\ resolvedFiles = EmptyMap
    /\ task = "null"
    /\ apiTask = "none"
    /\ zipTask = "none"
    /\ statusLog = <<>>
    /\ emitted = <<>>
    /\ apiRequests = <<>>
    /\ apiResponse = Response("none", "", AbsentDocument)
    /\ stagedLog = EmptyMap
    /\ listResult = "pending"
    /\ zipJobs = <<>>
    /\ updatesRequested = 0
    /\ updateReturned = "none"
    /\ hashed = {}
    /\ abortCalls = 0
    /\ stepLog = <<>>
    /\ exLast = ExOp("init", TRUE)

\* the catalog is not part of the export task's behaviour
CatalogIdle == UNCHANGED <<catVars, iconVars>>

\* buildZip(), given the resolved-file table and the status texts so far
buildZip(resolved, log) ==
    /\ statusLog' = Append(log, StatusAdding)
    /\ zipJobs' = Append(zipJobs, [files   |-> files',
                                   index   |-> generateIndex(resolved, optionalFiles),
                                   exclude |-> excludeFiles(resolved)])
    /\ task' = "zip"
    /\ zipTask' = "running"
    /\ pc' = "awaitZip"

\* executeTask(), and collectFiles() up to its processEvents()
ExecuteTask ==
    /\ pc = "ready"
    /\ statusLog' = Append(statusLog, StatusSearching)
    /\ abortable' = FALSE
    /\ pc' = "inCollect"
    /\ exLast' = ExOp("executeTask", TRUE)
    /\ CatalogIdle
    /\ UNCHANGED <<envVars, optionalFiles, firstRun, stepLog, files, pendingHashes, resolvedFiles, task, apiTask, zipTask,
                   emitted, apiRequests, apiResponse, stagedLog, listResult, zipJobs,
                   updatesRequested, updateReturned, hashed, abortCalls>>

\* collectFiles() from files.clear() on, and collectHashes() up to loop.exec(),
\* the wait for the resource list's updateFinished
CollectFiles ==
    /\ pc = "inCollect"
    /\ \E ok \in BOOLEAN :
         /\ listResult' = IF ok THEN "ok" ELSE "failed"
         /\ IF listingFailureStops(ok)
            THEN /\ \E partial \in SUBSET collectFileList : files' = partial
                 /\ emitted' = Append(emitted, Emission("failed", MsgCouldNotSearch))
                 /\ pc' = "returned"
                 /\ exLast' = ExOp("listFailed", FALSE)
                 /\ UNCHANGED <<pendingHashes, resolvedFiles, statusLog, updatesRequested, updateReturned,
                                modelUpdate, m_scheduled_update>>
            ELSE /\ files' = IF ok THEN collectFileList ELSE {}
                 /\ pendingHashes' = EmptyMap
                 /\ resolvedFiles' = resolvedFilesCleared(resolvedFiles)
                 /\ statusLog' = Append(statusLog, StatusHashes)
                 /\ updatesRequested' = updatesRequested + 1
                 /\ updateReturned' = IF updateStartsTask(modelUpdate) THEN "true" ELSE "false"
                 /\ modelUpdate' = "running"
                 /\ m_scheduled_update' = (m_scheduled_update \/ ~updateStartsTask(modelUpdate))
                 /\ pc' = "inLoop"
                 /\ exLast' = ExOp(IF ok THEN "listed" ELSE "listFailed", ok)
                 /\ UNCHANGED emitted
    /\ CatalogIdle
    /\ UNCHANGED <<fileClass, hashOf, sideOf, optionalFiles, firstRun, stepLog, abortable, task, apiTask, zipTask, apiRequests, apiResponse,
                   stagedLog, zipJobs, hashed, abortCalls>>

\* the update task of the resource list ends: its finished handler starts the
\* update that was asked for meanwhile, or emits updateFinished, on which the
\* loop of collectHashes() quits
UpdateTaskEnds ==
    /\ modelUpdate = "running"
    /\ \E again \in (IF m_scheduled_update THEN BOOLEAN ELSE {FALSE}) :
         /\ modelUpdate' = IF again THEN "running" ELSE "null"
         /\ pc' = IF pc = "inLoop" /\ loopQuits(updateEndSignal(again))
                  THEN "awaitUpdate" ELSE pc
    /\ m_scheduled_update' = FALSE
    /\ exLast' = ExOp("updateTaskEnds", TRUE)
    /\ CatalogIdle
    /\ UNCHANGED <<fileClass, hashOf, sideOf, optionalFiles, firstRun, stepLog, abortable, files,
                   pendingHashes, resolvedFiles, task, apiTask, zipTask, statusLog, emitted,
                   apiRequests, apiResponse, stagedLog, listResult, zipJobs, updatesRequested, updateReturned,
                   hashed, abortCalls>>

\* collectHashes() once the catalog has updated, then makeApiRequest()
CollectHashes ==
    /\ pc = "awaitUpdate"
    /\ LET resolved == insertAll(resolvedFiles, resolveFromIndex(allResources))
           pending  == insertAll(pendingHashes, stagePending(files, resolved))
       IN /\ resolvedFiles' = resolved
          /\ pendingHashes' = pending
          /\ hashed' = (DOMAIN resolved) \cup (DOMAIN pending)
          /\ abortable' = abortableAfterHashing
          /\ stagedLog' = pending
          /\ files' = files
          /\ IF noRequestNeeded(pending)
             THEN /\ buildZip(resolved, statusLog)
                  /\ exLast' = ExOp("hashedNoRequest", TRUE)
                  /\ UNCHANGED <<apiRequests, apiTask>>
             ELSE /\ statusLog' = Append(statusLog, StatusVersions)
                  /\ apiRequests' = Append(apiRequests, requestHashes(pending))
                  /\ task' = "api"
                  /\ apiTask' = "running"
                  /\ pc' = "awaitApi"
                  /\ exLast' = ExOp("hashedRequest", TRUE)
                  /\ UNCHANGED <<zipJobs, zipTask>>
    /\ CatalogIdle
    /\ UNCHANGED <<envVars, optionalFiles, firstRun, stepLog, emitted, apiResponse, listResult, updatesRequested, updateReturned, abortCalls>>

\* the request succeeds: parseApiResponse(response).  The response has records
\* for requested digests only.
ApiSucceeded ==
    /\ apiTask = "running"
    /\ apiTask' = "succeeded"
    /\ files' = files
    /\ \E parsable \in BOOLEAN : \E doc \in Documents :
         /\ parsable \/ doc = AbsentDocument
         /\ \A h \in Hashes : doc[h] # "absent" => h \in Range(pendingHashes)
         /\ apiResponse' = Response(IF parsable THEN "document" ELSE "unparsable", "", doc)
         /\ IF parseFailureStops(parsable)
            THEN /\ task' = "null"
                 /\ emitted' = Append(emitted, Emission("failed", MsgParseFailed))
                 /\ pc' = "returned"
                 /\ exLast' = ExOp("parseFailed", FALSE)
                 /\ UNCHANGED <<pendingHashes, resolvedFiles, statusLog, zipJobs, zipTask>>
            ELSE /\ resolvedFiles' =
                        IF parsable
                        THEN parseApiResponse(pendingHashes, resolvedFiles, doc)
                        ELSE resolvedFiles
                 /\ pendingHashes' = EmptyMap
                 /\ buildZip(resolvedFiles', statusLog)
                 /\ exLast' = ExOp(IF parsable THEN "parsed" ELSE "parseFailed", parsable)
                 /\ emitted' = IF parsable THEN emitted
                               ELSE Append(emitted, Emission("failed", MsgParseFailed))
    /\ CatalogIdle
    /\ UNCHANGED <<envVars, optionalFiles, firstRun, stepLog, abortable, apiRequests, stagedLog, listResult,
                   updatesRequested, updateReturned, hashed, abortCalls>>

\* the request fails at transport level: emitFailed(reason)
ApiFailed ==
    /\ apiTask = "running"
    /\ \E reason \in TransportReasons :
         /\ apiResponse' = Response("transport", reason, AbsentDocument)
         /\ emitted' = Append(emitted, Emission("failed", apiFailureReason(reason)))
    /\ apiTask' = "failed"
    /\ pc' = "returned"
    /\ exLast' = ExOp("apiFailed", FALSE)
    /\ CatalogIdle
    /\ UNCHANGED <<envVars, optionalFiles, firstRun, stepLog, abortable, files, pendingHashes, resolvedFiles, task, zipTask,
                   statusLog, apiRequests, stagedLog, listResult, zipJobs, updatesRequested, updateReturned,
                   hashed, abortCalls>>

\* the archive writer ends: succeeded or failed(reason) while running, aborted
\* once its abort has been requested; its finished signal comes with every end,
\* before or after the failed signal
ZipFinished ==
    /\ zipTask \in {"running", "aborting"}
    /\ \E outcome \in (IF zipTask = "running" THEN {"succeeded", "failed"} ELSE {"aborted"}) :
       \E reason \in ZipReasons :
       \E finishedFirst \in (IF outcome = "failed" THEN BOOLEAN ELSE {FALSE}) :
         /\ zipTask' = outcome
         /\ emitted' = Append(emitted, zipOutcomeEmission(outcome, reason))
         /\ stepLog' = stepLog \o stepReports(outcome, finishedFirst)
         /\ exLast' = ExOp("zip:" \o outcome, outcome = "succeeded")
    /\ pc' = "returned"
    /\ CatalogIdle
    /\ UNCHANGED <<envVars, optionalFiles, firstRun, abortable, files, pendingHashes, resolvedFiles, task, apiTask,
                   statusLog, apiRequests, apiResponse, stagedLog, listResult, zipJobs,
                   updatesRequested, updateReturned, hashed, abortCalls>>

\* bool abort()
Abort ==
    /\ abortCalls < MaxAborts
    /\ abortCalls' = abortCalls + 1
    /\ IF task # "null"
       THEN /\ apiTask' = IF task = "api" /\ apiTask = "running" THEN "aborted" ELSE apiTask
            /\ zipTask' = IF task = "zip" /\ zipTask = "running" THEN "aborting" ELSE zipTask
            /\ emitted' = Append(emitted, Emission("aborted", ""))
            /\ exLast' = ExOp("abort", TRUE)
       ELSE /\ exLast' = ExOp("abort", FALSE)
            /\ UNCHANGED <<apiTask, zipTask, emitted>>
    /\ CatalogIdle
    /\ UNCHANGED <<envVars, optionalFiles, firstRun, stepLog, pc, abortable, files, pendingHashes, resolvedFiles, task,
                   statusLog, apiRequests, apiResponse, stagedLog, listResult, zipJobs,
                   updatesRequested, updateReturned, hashed>>

\* start() on the task object after its run has ended: executeTask() again
Rerun ==
    /\ pc = "returned"
    /\ ~firstRun.ended
    /\ firstRun' = [ended |-> TRUE, response |-> apiResponse]
    /\ statusLog' = Append(statusLog, StatusSearching)
    /\ abortable' = FALSE
    /\ pc' = "inCollect"
    /\ exLast' = ExOp("executeTask", TRUE)
    /\ CatalogIdle
    /\ UNCHANGED <<envVars, optionalFiles, stepLog, files, pendingHashes, resolvedFiles, task,
                   apiTask, zipTask, emitted, apiRequests, apiResponse, stagedLog, listResult,
                   zipJobs, updatesRequested, updateReturned, hashed, abortCalls>>

\* the content of the export root changes while collectHashes() waits for the
\* update of the resource list: a file appears, goes away or becomes another
\* kind of file
RootChanges ==
    /\ pc = "inLoop"
    /\ \E p \in Paths : \E c \in FileClasses \ {fileClass[p]} : \E h \in Hashes :
         /\ ~contentRead(c) => h = 1
         /\ fileClass' = [fileClass EXCEPT ![p] = c]
         /\ hashOf' = [hashOf EXCEPT ![p] = h]
    /\ UNCHANGED <<sideOf, modelUpdate, m_scheduled_update, exVars, catVars, iconVars>>

ExNext ==
    \/ ExecuteTask
    \/ CollectFiles
    \/ UpdateTaskEnds
    \/ CollectHashes
    \/ ApiSucceeded
    \/ ApiFailed
    \/ ZipFinished
    \/ Abort

\* the export run while the content of its root changes
ChangingNext ==
    \/ ExecuteTask
    \/ CollectFiles
    \/ RootChanges
    \/ UpdateTaskEnds
    \/ CollectHashes
    \/ ApiSucceeded
    \/ ApiFailed
    \/ ZipFinished

\* the export run to its end, and once more on the same object
RerunNext ==
    \/ ExecuteTask
    \/ CollectFiles
    \/ UpdateTaskEnds
    \/ CollectHashes
    \/ ApiSucceeded
    \/ ApiFailed
    \/ ZipFinished
    \/ Rerun

(***************************************************************************)
(* IconList: the icon folder, the watcher and the icon list                *)
(***************************************************************************)

\* Paths are strings, written as sequences of characters.
DirA == <<"/", "a">>
DirAS == <<"/", "a", "/", "s">>
DirAB == <<"/", "a", "b">>

\* the directories an icon folder setting can name or that lie below one
IconDirs == {DirA, DirAS, DirAB}

\* the working directory: QDir's default, what m_dir is before the first call
Cwd == <<"/", "w">>

\* the one icon file name used in every directory
FileName == <<"x">>

FilePath(d) == d \o <<"/">> \o FileName

IconFiles == {FilePath(d) : d \in IconDirs}

\* no FileBased image
NoFile == <<>>

\* QString::startsWith
StartsWith(p, q) == Len(q) <= Len(p) /\ \A k \in DOMAIN q : p[k] = q[k]

\* every path of the model
AllPaths == IconDirs \cup IconFiles \cup {Cwd}

\* for each path q: q and the paths that lie in the directory q
InsideOf == [q \in AllPaths |-> {p \in AllPaths : p = q \/ StartsWith(p, q \o <<"/">>)}]

\* p is the directory q or lies in it
Inside(p, q) == p \in InsideOf[q]

\* path.startsWith(root), for every path and root of the model
StartsWithOf == [q \in AllPaths |-> {p \in AllPaths : StartsWith(p, q)}]

\* the part of p after its first n characters
DropChars(p, n) == [k \in 1..(Len(p) - n) |-> p[k + n]]

\* for each directory: the directories directly in it
SubdirsTable ==
    [d \in IconDirs |->
        {e \in IconDirs : /\ StartsWith(e, d \o <<"/">>)
                          /\ \A k \in (Len(d) + 2)..Len(e) : e[k] # "/"}]

SubdirsOf(d) == SubdirsTable[d]

\* for each file or directory: the directory it lies in
ParentTable ==
    [p \in IconDirs \cup IconFiles |->
        LET cut == CHOOSE k \in DOMAIN p :
                       p[k] = "/" /\ \A j \in (k + 1)..Len(p) : p[j] # "/"
        IN [k \in 1..(cut - 1) |-> p[k]]]

ParentOf(p) == ParentTable[p]

\* QDir::relativeFilePath for every root and file: the path of f seen from
\* dir. A path outside dir comes out with a leading "..", which no key of
\* m_nameIndex has.
RelativeTable ==
    [dir \in IconDirs |->
        [f \in IconFiles |->
            IF StartsWith(f, dir \o <<"/">>)
            THEN DropChars(f, Len(dir) + 1)
            ELSE <<".", ".">> \o f]]

relativeFilePath(dir, f) == RelativeTable[dir][f]

\* a.m_key.contains(QDir::separator())
IsSubdirKey(key) == \E k \in DOMAIN key : key[k] = "/"

\* collation rank of a character
CharRank(c) ==
    CASE c = "." -> 0
      [] c = "/" -> 1
      [] c = "a" -> 2
      [] c = "b" -> 3
      [] c = "d" -> 4
      [] c = "g" -> 5
      [] c = "s" -> 6
      [] c = "w" -> 7
      [] OTHER   -> 8

\* a.localeAwareCompare(b) < 0
RECURSIVE LocaleLess(_, _)
LocaleLess(a, b) ==
    IF a = <<>> THEN b # <<>>
    ELSE IF b = <<>> THEN FALSE
    ELSE IF Head(a) # Head(b) THEN CharRank(Head(a)) < CharRank(Head(b))
    ELSE LocaleLess(Tail(a), Tail(b))

\* the two keys getIconIndex treats as one
KeyDefault == <<"d", "e", "f", "a", "u", "l", "t">>
KeyGrass == <<"g", "r", "a", "s", "s">>

\* the keys a caller of addIcon, addThemeIcon or getIconIndex passes
CallerKeys == {FileName, KeyDefault, KeyGrass}

\* the keys an icon can have
IconKeys == CallerKeys \cup {RelativeTable[d][f] : d \in IconDirs, f \in IconFiles}

\* the comparison of sortIconList for every key: root-level icons first, then
\* by key; for each key, the keys that sort before it
SortsBefore ==
    [b \in IconKeys |->
        {a \in IconKeys : IF IsSubdirKey(a) # IsSubdirKey(b)
                          THEN ~IsSubdirKey(a)
                          ELSE LocaleLess(a, b)}]

IconLess(a, b) == a.key \in SortsBefore[b.key]

\* reindex(): key -> row
reindex(icons) ==
    [key \in {icons[k].key : k \in DOMAIN icons} |->
        CHOOSE k \in DOMAIN icons :
            /\ icons[k].key = key
            /\ \A j \in DOMAIN icons : icons[j].key = key => j <= k]

\* std::sort of m_icons by IconLess
sortIconList(icons) ==
    [k \in 1..Len(icons) |->
        icons[CHOOSE i \in DOMAIN icons :
                 Cardinality({j \in DOMAIN icons : IconLess(icons[j], icons[i])}) = k - 1]]

NoRow == 0 - 1

\* getIconIndex(key): the row of the icon, -1 if there is none
getIconIndex(index, key) ==
    LET k == IF key = KeyDefault THEN KeyGrass ELSE key
    IN IF k \in DOMAIN index THEN index[k] ELSE NoRow

\* an MMCIcon: its key, the file of its FileBased image, whether it has a
\* Builtin image
MMCIcon(key, file, builtin) == [key |-> key, file |-> file, builtin |-> builtin]

\* filenames of the FileBased images in the list
currentSetOf(icons) == {icons[k].file : k \in {j \in DOMAIN icons : icons[j].file # NoFile}}

\* addThemeIcon(key) for every builtin name, on the empty list
RECURSIVE addThemeIcons(_)
addThemeIcons(names) ==
    IF names = {} THEN <<>>
    ELSE LET n == CHOOSE x \in names : TRUE
         IN Append(addThemeIcons(names \ {n}), MMCIcon(n, NoFile, TRUE))

\* FS::ensureFolderPathExists(d): the directories afterwards; `made` is
\* whether a missing directory could be created (with its parents)
ensureFolderPathExists(dirs, d, made) ==
    IF d \in dirs \/ ~made THEN dirs
    ELSE dirs \cup {e \in IconDirs : Inside(d, e)}

\* the directories getIconFilePaths visits from d: the listing of a directory
\* that cannot be read is empty
RECURSIVE VisitedDirs(_, _, _)
VisitedDirs(d, dirs, unlistable) ==
    IF d \notin dirs THEN {}
    ELSE IF d \in unlistable THEN {d}
    ELSE {d} \cup UNION {VisitedDirs(e, dirs, unlistable) : e \in SubdirsOf(d)}

\* getIconFilePaths(): the files listed in the directories visited
getIconFilePaths(d, dirs, fileSet, unlistable) ==
    {f \in fileSet : ParentOf(f) \in VisitedDirs(d, dirs, unlistable) \ unlistable}

\* QFileSystemWatcher::addPath(p): refused for a path that does not exist, is
\* watched already, or that the system will not watch
addPath(w, p, present, refused) ==
    IF p \in present /\ p \notin w /\ p \notin refused
    THEN [ok |-> TRUE, watched |-> w \cup {p}]
    ELSE [ok |-> FALSE, watched |-> w]

\* what a registration pass has done so far: the flag, the watcher's paths and
\* the paths it tried to register
Registration(watching, w, tried) == [watching |-> watching, watched |-> w, tried |-> tried]

RECURSIVE addPathRecursively(_, _, _, _, _)
RECURSIVE addSubdirectories(_, _, _, _, _)

\* the loop of addPathRecursively over the subdirectories: a subdirectory
\* that could be registered makes the result true
addSubdirectories(subs, acc, dirs, refused, unlistable) ==
    IF subs = {} THEN acc
    ELSE LET e == CHOOSE x \in subs : TRUE
             r == addPathRecursively(e, dirs, refused, unlistable, acc.watched)
         IN addSubdirectories(subs \ {e},
                              Registration(acc.watching \/ r.watching, r.watched,
                                           acc.tried \cup r.tried),
                              dirs, refused, unlistable)

\* addPathRecursively(path): false at once for a missing directory; else
\* registers path and then, whatever that gave, every directory below it
addPathRecursively(path, dirs, refused, unlistable, w) ==
    IF path \notin dirs
    THEN Registration(FALSE, w, {})
    ELSE LET self == addPath(w, path, dirs, refused)
             subs == IF path \in unlistable THEN {} ELSE SubdirsOf(path) \cap dirs
         IN addSubdirectories(subs, Registration(self.ok, self.watched, {path}),
                              dirs, refused, unlistable)

\* toRemove is computed the wrong way round
toRemoveSwapped(currentSet, newSet) == newSet \ currentSet

\* QSet<QString> toRemove = currentSet - newSet
toRemove(currentSet, newSet) == currentSet \ newSet

\* QSet<QString> toAdd = newSet - currentSet
toAdd(currentSet, newSet) == newSet \ currentSet

\* the list, the name index and the watcher while directoryChanged runs
IconState(icons, index, w) == [icons |-> icons, index |-> index, watched |-> w]

\* one round of the removal loop without its reindex()
removeIconNoReindex(st, key, removedPath) ==
    LET idx == getIconIndex(st.index, key)
    IN IF idx = NoRow THEN st
       ELSE LET cleared == [st.icons EXCEPT ![idx].file = NoFile]
            IN IF ~cleared[idx].builtin
               THEN IconState(RemoveAt(cleared, idx), st.index, st.watched \ {removedPath})
               ELSE IconState(cleared, st.index, st.watched \ {removedPath})

\* one round of the removal loop of directoryChanged, from getIconIndex(key) on
removeIconByKey(st, key, removedPath) ==
    LET idx == getIconIndex(st.index, key)
    IN IF idx = NoRow THEN st
       ELSE LET cleared == [st.icons EXCEPT ![idx].file = NoFile]
            IN IF ~cleared[idx].builtin
               THEN IconState(RemoveAt(cleared, idx), reindex(RemoveAt(cleared, idx)),
                              st.watched \ {removedPath})
               ELSE IconState(cleared, st.index, st.watched \ {removedPath})

\* one round of the removal loop of directoryChanged
removeIcon(st, dir, removedPath) ==
    removeIconByKey(st, relativeFilePath(dir, removedPath), removedPath)

\* the removal loop (the order in which the QSet is walked does not matter)
RECURSIVE removeIcons(_, _, _)
removeIcons(st, dir, paths) ==
    IF paths = {} THEN st
    ELSE LET p == CHOOSE x \in paths : TRUE
         IN removeIcons(removeIcon(st, dir, p), dir, paths \ {p})

\* one round of the add loop: addIcon(key, name, path, FileBased), then
\* m_watcher->addPath(addedPath). Every file is taken to load as an icon.
addIconByKey(st, key, addedPath, fileSet) ==
    LET w   == addPath(st.watched, addedPath, fileSet, {}).watched
    IN IF key \in DOMAIN st.index
       THEN IconState([st.icons EXCEPT ![st.index[key]].file = addedPath], st.index, w)
       ELSE IconState(Append(st.icons, MMCIcon(key, addedPath, FALSE)),
                      [k \in DOMAIN st.index \cup {key} |->
                          IF k = key THEN Len(st.icons) + 1 ELSE st.index[k]],
                      w)

addIcon(st, dir, addedPath, fileSet) ==
    addIconByKey(st, relativeFilePath(dir, addedPath), addedPath, fileSet)

\* bool addThemeIcon(key)
addThemeIcon(st, key) ==
    IF key \in DOMAIN st.index
    THEN IconState([st.icons EXCEPT ![st.index[key]].builtin = TRUE], st.index, st.watched)
    ELSE IconState(Append(st.icons, MMCIcon(key, NoFile, TRUE)),
                   [k \in DOMAIN st.index \cup {key} |->
                       IF k = key THEN Len(st.icons) + 1 ELSE st.index[k]],
                   st.watched)

\* the add loop
RECURSIVE addIcons(_, _, _, _)
addIcons(st, dir, paths, fileSet) ==
    IF paths = {} THEN st
    ELSE LET p == CHOOSE x \in paths : TRUE
         IN addIcons(addIcon(st, dir, p, fileSet), dir, paths \ {p}, fileSet)

\* what the last operation on the icon list was; for directoryChanged: its
\* argument, whether it returned before the scan, whether a directory listing
\* of the scan failed, the scanned set, the two differences, whether
\* startWatching ran and the paths it tried to register
IconOp(op, path, early, scanFailed, newSet, adds, removes, started, tried) ==
    [op |-> op, path |-> path, early |-> early, scanFailed |-> scanFailed,
     newSet |-> newSet, toAdd |-> adds, toRemove |-> removes,
     started |-> started, tried |-> tried]

IconOpNone(op) == IconOp(op, <<>>, FALSE, FALSE, {}, {}, {}, FALSE, {})

\* the catalog and the export task are not part of the icon list's behaviour
IconListOnly == UNCHANGED <<catVars, envVars, exVars>>

\* the constructor up to its call of directoryChanged(path): the builtin
\* icons are in the list, nothing is watched, m_dir is QDir's default
IconInit ==
    /\ fsDirs \in {ds \in SUBSET IconDirs : \A d \in ds : \A e \in IconDirs : Inside(d, e) => e \in ds}
    /\ fsFiles \in {fs \in SUBSET IconFiles : \A f \in fs : ParentOf(f) \in fsDirs}
    /\ \E names \in SUBSET {FileName} :
          /\ m_icons = addThemeIcons(names)
          /\ m_nameIndex = reindex(addThemeIcons(names))
    /\ m_dir = Cwd
    /\ m_isWatching = FALSE
    /\ watched = {}
    /\ icLast = IconOpNone("init")

\* an icon file is created or deleted, or the subdirectory is created or
\* deleted with what it holds; the watcher drops a path that is deleted
FsChange ==
    /\ \/ \E f \in IconFiles :
            /\ ParentOf(f) \in fsDirs
            /\ fsFiles' = IF f \in fsFiles THEN fsFiles \ {f} ELSE fsFiles \cup {f}
            /\ watched' = IF f \in fsFiles THEN watched \ {f} ELSE watched
            /\ UNCHANGED fsDirs
       \/ \E d \in IconDirs :
            /\ ParentOf(d) \in fsDirs
            /\ IF d \in fsDirs
               THEN /\ fsDirs' = {e \in fsDirs : ~Inside(e, d)}
                    /\ fsFiles' = {f \in fsFiles : ~Inside(f, d)}
                    /\ watched' = {p \in watched : ~Inside(p, d)}
               ELSE /\ fsDirs' = fsDirs \cup {d}
                    /\ UNCHANGED <<fsFiles, watched>>
    /\ icLast' = IconOpNone("fs")
    /\ IconListOnly
    /\ UNCHANGED <<m_dir, m_icons, m_nameIndex, m_isWatching>>

\* void directoryChanged(const QString& path), called by the constructor, by
\* SettingChanged and by the watcher
DirectoryChanged ==
    \E path \in IconDirs :
        LET differs == m_dir # path
            dir     == IF differs /\ path \notin StartsWithOf[m_dir] THEN path ELSE m_dir
            below   == {d \in IconDirs : Inside(d, dir) /\ (d = dir \/ d \in fsDirs)}
        IN \E refused \in SUBSET (IF differs THEN below ELSE {}) :
           \E unlistable \in {{}} \cup {{d} : d \in below} :
           \E made1 \in (IF differs /\ dir \notin fsDirs THEN BOOLEAN ELSE {TRUE}) :
           \E made2 \in (IF dir \notin fsDirs /\ ~(differs /\ made1) THEN BOOLEAN ELSE {TRUE}) :
               LET stopped == IF differs /\ m_isWatching THEN {} ELSE watched
                   dirs1   == IF differs THEN ensureFolderPathExists(fsDirs, dir, made1)
                              ELSE fsDirs
                   reg     == IF differs
                              THEN addPathRecursively(dir, dirs1, refused, unlistable, stopped)
                              ELSE Registration(m_isWatching, watched, {})
                   dirs2   == ensureFolderPathExists(dirs1, dir, made2)
                   early   == dir \notin dirs2
                   newSet  == getIconFilePaths(dir, dirs2, fsFiles, unlistable)
                   current == currentSetOf(m_icons)
                   removes == toRemove(current, newSet)
                   adds    == toAdd(current, newSet)
                   removed == removeIcons(IconState(m_icons, m_nameIndex, reg.watched),
                                          dir, removes)
                   added   == addIcons(removed, dir, adds, fsFiles)
                   failed  == VisitedDirs(dir, dirs2, unlistable) \cap unlistable # {}
               IN /\ m_dir' = dir
                  /\ m_isWatching' = reg.watching
                  /\ fsDirs' = dirs2
                  /\ IF early
                     THEN /\ watched' = reg.watched
                          /\ UNCHANGED <<m_icons, m_nameIndex>>
                          /\ icLast' = IconOp("directoryChanged", path, TRUE, FALSE, {}, {},
                                              {}, differs, reg.tried)
                     ELSE /\ m_icons' = sortIconList(added.icons)
                          /\ m_nameIndex' = reindex(m_icons')
                          /\ watched' = added.watched
                          /\ icLast' = IconOp("directoryChanged", path, FALSE, failed, newSet,
                                              adds, removes, differs, reg.tried)
                  /\ UNCHANGED fsFiles
                  /\ IconListOnly

IconNext ==
    \/ FsChange
    \/ DirectoryChanged

\* the keys of the list
KeysOf(icons) == {icons[k].key : k \in DOMAIN icons}

\* the operations on the list one at a time, with the keys a caller can pass;
\* `path` of the record is the key, `toRemove` the keys of the rows removed
ListOp(op, key, st) ==
    [IconOpNone(op) EXCEPT !.path = key, !.toRemove = KeysOf(m_icons) \ KeysOf(st.icons)]

\* what an operation on the list alone leaves as it is
ListOnly == IconListOnly /\ UNCHANGED <<fsDirs, fsFiles, m_dir, m_isWatching>>

\* bool addThemeIcon(const QString& key)
AddThemeIcon ==
    \E key \in CallerKeys :
        LET st == addThemeIcon(IconState(m_icons, m_nameIndex, watched), key)
        IN /\ m_icons' = st.icons
           /\ m_nameIndex' = st.index
           /\ icLast' = ListOp("addThemeIcon", key, st)
           /\ UNCHANGED watched
           /\ ListOnly

\* bool addIcon(key, name, path, FileBased) with a file that loads as an icon
AddIcon ==
    \E key \in CallerKeys : \E path \in IconFiles :
        LET st == addIconByKey(IconState(m_icons, m_nameIndex, watched), key, path, {})
        IN /\ m_icons' = st.icons
           /\ m_nameIndex' = st.index
           /\ icLast' = ListOp("addIcon", key, st)
           /\ UNCHANGED watched
           /\ ListOnly

\* one round of the removal loop of directoryChanged, for a file whose
\* relative path is `key`
RemovalRound ==
    \E key \in CallerKeys : \E path \in currentSetOf(m_icons) :
        LET st == removeIconByKey(IconState(m_icons, m_nameIndex, watched), key, path)
        IN /\ m_icons' = st.icons
           /\ m_nameIndex' = st.index
           /\ watched' = st.watched
           /\ icLast' = ListOp("removalRound", key, st)
           /\ ListOnly

\* void sortIconList()
SortIconList ==
    /\ m_icons' = sortIconList(m_icons)
    /\ m_nameIndex' = reindex(m_icons')
    /\ icLast' = ListOp("sortIconList", <<>>, IconState(m_icons', m_nameIndex', watched))
    /\ UNCHANGED watched
    /\ ListOnly

ListNext ==
    \/ AddThemeIcon
    \/ AddIcon
    \/ RemovalRound
    \/ SortIconList

(***************************************************************************)
(* Specifications                                                          *)
(***************************************************************************)

\* the export root and task, untouched
ExportUnused ==
    /\ fileClass = [p \in Paths |-> "absent"]
    /\ hashOf = [p \in Paths |-> 1]
    /\ sideOf = [p \in Paths |-> UniversalSide]
    /\ modelUpdate = "null"
    /\ m_scheduled_update = FALSE
    /\ ExInit
    /\ ~optionalFiles

\* the catalog, untouched
CatalogUnused == CatInit

\* the icon list, untouched
IconsUnused ==
    /\ fsDirs = {}
    /\ fsFiles = {}
    /\ watched = {}
    /\ m_dir = Cwd
    /\ m_icons = <<>>
    /\ m_nameIndex = <<>>
    /\ m_isWatching = FALSE
    /\ icLast = IconOpNone("init")

InitCatalog == CatInit /\ ExportUnused /\ IconsUnused

\* every file declares the universal side and optional handling is off
PlainManifest == sideOf = [p \in Paths |-> UniversalSide] /\ ~optionalFiles

\* no update of the resource list is underway when the export starts
NoUpdateUnderway == modelUpdate = "null"

InitExport ==
    CatalogUnused /\ EnvInit /\ ExInit /\ IconsUnused /\ PlainManifest /\ NoUpdateUnderway

\* an export root of plain files, tracked files without metadata and tracked
\* files with metadata on an allowed host (of which only the declared side
\* varies)
RerunRoot ==
    \A p \in Paths :
        /\ fileClass[p] \in {"absent", "plain", "modNoMeta", "modLocal"}
        /\ fileClass[p] = "modLocal" => hashOf[p] = 1

InitRerun ==
    CatalogUnused /\ EnvInit /\ ExInit /\ IconsUnused /\ RerunRoot /\ NoUpdateUnderway

InitIcons == CatalogUnused /\ ExportUnused /\ IconInit

SpecCatalog == InitCatalog /\ [][CatNext]_vars

SpecExport == InitExport /\ [][ExNext]_vars

SpecRerun == InitRerun /\ [][RerunNext]_vars

SpecIcons == InitIcons /\ [][IconNext]_vars

\* the empty list, before the constructor adds the builtin icons
InitList == CatalogUnused /\ ExportUnused /\ IconsUnused

SpecList == InitList /\ [][ListNext]_vars

SpecChanging == InitExport /\ [][ChangingNext]_vars

\* an export root of plain files and tracked files without metadata, of one
\* content; an update of the resource list may be underway
LiveRoot ==
    /\ \A p \in Paths : fileClass[p] \in {"absent", "plain", "modNoMeta"}
    /\ hashOf = [p \in Paths |-> 1]

InitLive == CatalogUnused /\ EnvInit /\ ExInit /\ IconsUnused /\ PlainManifest /\ LiveRoot

\* the task's own code runs on once it is called, and every started sub-task
\* (update task, remote request, archive writer) ends; nothing makes a caller
\* call abort()
SubTasksEnd ==
    /\ WF_vars(CollectFiles)
    /\ WF_vars(CollectHashes)
    /\ WF_vars(UpdateTaskEnds)
    /\ WF_vars(ApiSucceeded \/ ApiFailed)
    /\ WF_vars(ZipFinished)

SpecLive == InitLive /\ [][ExNext]_vars /\ SubTasksEnd

(***************************************************************************)
(* Claims about the catalog                                                *)
(***************************************************************************)

\* C1: a parse-task completion (success or failure) whose ticket is not in the
\* active-task map leaves every Resource, the resource sequence and the index
\* map unchanged.
C1_StaleCompletionIsNoOp ==
    [][(catLast'.op = "parseDone" /\ catLast'.stale)
          => UNCHANGED <<m_resources, m_resources_index>>]_vars

\* a stale completion has been delivered while the catalog holds resources
C1_Witness ==
    /\ catLast.op = "parseDone"
    /\ catLast.stale
    /\ m_resources # <<>>

\* the Resource object a parse task was dispatched for is still in the catalog
ObjLive(o) == \E k \in DOMAIN m_resources : m_resources[k].obj = o

\* C2: removing a resource while its parse task is in flight does not cancel
\* the task (it stays among the running tasks) but invalidates its ticket, and
\* the late completion neither re-inserts the resource nor touches a resource
\* that took over its id or row: a resource only ever carries the result of a
\* parse of itself.
C2_RemovalInvalidatesTicket ==
    /\ [](/\ \A t \in parseTasks :
                ~ObjLive(t.obj) => t.ticket \notin DOMAIN m_active_parse_tasks
          /\ \A k \in DOMAIN m_resources :
                m_resources[k].meta \in {NoTicket, m_resources[k].obj})
    /\ [][/\ catLast'.op \in {"delete", "updateSucceeded"} => parseTasks \subseteq parseTasks'
          /\ (catLast'.op = "parseDone" /\ catLast'.stale) =>
                 ResourceIds(m_resources') = ResourceIds(m_resources)]_vars

\* the late completion of a removed resource's task arrived while a new
\* resource with the same id, still being parsed, is in the catalog
C2_Witness ==
    /\ catLast.op = "parseDone"
    /\ catLast.stale
    /\ catLast.id \in DOMAIN m_resources_index
    /\ m_resources[m_resources_index[catLast.id]].state = "Parsing"
    /\ m_resources[m_resources_index[catLast.id]].meta = NoTicket

\* C3: at most one coarse update task is in flight; update() called while one
\* is in flight returns false and starts no second task.
C3_SingleUpdateTask ==
    /\ [](updateTasksRunning <= 1)
    /\ [][(catLast'.op = "update" /\ m_current_update_task # "null")
             => /\ catLast'.ret = FALSE
                /\ UNCHANGED <<m_current_update_task, updateTasksRunning>>]_vars

\* update() was called while an update task was in flight
C3_Witness ==
    /\ catLast.op = "update"
    /\ catLast.ret = FALSE
    /\ updateTasksRunning = 1

\* C4: the index map maps the id of the resource at every row to that row and
\* has no other keys.
C4_IndexConsistent ==
    /\ DOMAIN m_resources_index = ResourceIds(m_resources)
    /\ \A k \in DOMAIN m_resources : m_resources_index[m_resources[k].id] = k

\* a removal (deleteResources or applyUpdates) has moved a surviving resource
\* to a lower row
C4_Witness ==
    /\ catLast.op \in {"delete", "updateSucceeded"}
    /\ catLast.shift
    /\ m_resources # <<>>

(***************************************************************************)
(* Claims about the export pipeline                                        *)
(***************************************************************************)
IsPrefix(s, t) == Len(s) <= Len(t) /\ \A k \in DOMAIN s : s[k] = t[k]

\* the two orders in which the stages may be entered
StageOrders ==
    {<<StatusSearching, StatusHashes, StatusVersions, StatusAdding>>,
     <<StatusSearching, StatusHashes, StatusAdding>>}

\* C5: succeeded is emitted only once the archive writer has succeeded; the
\* stages are entered in the order CollectingFiles, ComputingLocalHashes,
\* AwaitingRemoteResolution (possibly skipped), BuildingArchive; and no stage is
\* entered once a terminal outcome has been emitted.
C5_StageOrder ==
    /\ [](/\ \A k \in DOMAIN emitted :
                emitted[k].kind = "succeeded" => zipTask = "succeeded"
          /\ \E o \in StageOrders : IsPrefix(statusLog, o))
    /\ [][statusLog' # statusLog => emitted' = <<>>]_vars

\* a run went through all four stages and succeeded
C5_Witness ==
    /\ statusLog = <<StatusSearching, StatusHashes, StatusVersions, StatusAdding>>
    /\ zipTask = "succeeded"
    /\ emitted = <<Emission("succeeded", "")>>

\* C6: when the batched request fails at transport level the pipeline fails
\* with the resolver's reason, the archive writer is never started and no
\* manifest is generated.
C6_TransportFailureIsFatal ==
    apiTask = "failed" =>
        /\ apiResponse.kind = "transport"
        /\ emitted # <<>>
        /\ emitted[1] = Emission("failed", apiResponse.reason)
        /\ zipJobs = <<>>
        /\ zipTask = "none"

\* the request has failed at transport level
C6_Witness ==
    /\ apiTask = "failed"
    /\ apiResponse.reason \in TransportReasons
    /\ pc = "returned"

\* C7: when the response is no parsable document the pipeline fails with the
\* parse-failure message, which no transport failure produces; the
\* resolved-file table stays as it was and the archive writer is never started.
C7_ParseFailureIsFatal ==
    /\ [](apiResponse.kind = "unparsable" =>
             /\ emitted # <<>>
             /\ emitted[1] = Emission("failed", MsgParseFailed)
             /\ emitted[1].reason \notin TransportReasons
             /\ zipJobs = <<>>
             /\ zipTask = "none")
    /\ [](apiResponse.kind = "transport" =>
             \A k \in DOMAIN emitted : emitted[k].reason # MsgParseFailed)
    /\ [][apiResponse'.kind = "unparsable" => resolvedFiles' = resolvedFiles]_vars

\* an unparsable response arrived while files resolved from the local index
\* were in the table
C7_Witness ==
    /\ apiResponse.kind = "unparsable"
    /\ resolvedFiles # EmptyMap
    /\ pc = "returned"

\* staged files for which the document has no matching record
Unmatched ==
    {p \in DOMAIN stagedLog : apiResponse.doc[stagedLog[p]] # "match"}

\* C8: when the resolver answers with a document, every staged file without a
\* matching record (all of them, when nothing matches) has no resolved-file
\* entry and no manifest entry and is in the archive as a plain override, and
\* the pipeline has gone on to BuildingArchive.
C8_UnmatchedBecomesOverride ==
    apiResponse.kind = "document" =>
        /\ Len(zipJobs) = 1
        /\ statusLog[Len(statusLog)] = StatusAdding
        /\ \A p \in Unmatched :
              /\ p \notin DOMAIN resolvedFiles
              /\ \A k \in DOMAIN zipJobs[1].index : zipJobs[1].index[k].path # p
              /\ p \in overrides(zipJobs[1])

\* the resolver answered, nothing matched (for one file there was a record,
\* but none of its files carried the digest), and the archive was written
C8_Witness ==
    /\ apiResponse.kind = "document"
    /\ Unmatched = DOMAIN stagedLog
    /\ \E p \in Unmatched : apiResponse.doc[stagedLog[p]] = "nomatch"
    /\ zipTask = "succeeded"

\* hashing has finished: the status moved on from "Finding file hashes..."
HashingDone == Len(statusLog) >= 3

\* C9: no remote request is issued before hashing has finished; afterwards
\* none has been issued if no file was staged (BuildingArchive follows
\* directly), and exactly one otherwise, carrying the digest of every staged
\* file.
C9_OneBatchedRequest ==
    /\ ~HashingDone => apiRequests = <<>>
    /\ HashingDone =>
          IF DOMAIN stagedLog = {}
          THEN /\ apiRequests = <<>>
               /\ statusLog[3] = StatusAdding
          ELSE /\ Len(apiRequests) = 1
               /\ statusLog[3] = StatusVersions
               /\ Range(apiRequests[1]) = {stagedLog[p] : p \in DOMAIN stagedLog}
               /\ Len(apiRequests[1]) = Cardinality(DOMAIN stagedLog)

\* a request for two staged files with different contents has been issued
C9_Witness ==
    /\ Len(apiRequests) = 1
    /\ Cardinality(DOMAIN stagedLog) = 2
    /\ Cardinality(Range(apiRequests[1])) = 2

\* C10: when the recursive file listing fails the pipeline fails with "Could
\* not search for files" and does nothing further: no catalog update, no
\* hashing, no remote request, no archive.
C10_ListingFailureIsFatal ==
    listResult = "failed" =>
        /\ emitted = <<Emission("failed", MsgCouldNotSearch)>>
        /\ statusLog = <<StatusSearching>>
        /\ updatesRequested = 0
        /\ hashed = {}
        /\ apiRequests = <<>>
        /\ apiTask = "none"
        /\ zipJobs = <<>>
        /\ zipTask = "none"

\* the listing failed, and abort() was called afterwards
C10_Witness ==
    /\ listResult = "failed"
    /\ pc = "returned"
    /\ exLast = ExOp("abort", FALSE)

(***************************************************************************)
(* Claims about the archive and the abort handling of the export           *)
(***************************************************************************)

\* the manifest entries of the archive job that stand for the file with the
\* relative path p
ManifestEntries(job, p) ==
    {k \in DOMAIN job.index : job.index[k].path = indexPath(optionalFiles, p)}

\* C11: when the archive is built, every collected file is in exactly one of
\* two groups: a file whose relative path is a key of the resolved-file table
\* is left out of the overrides payload and has exactly one manifest entry;
\* every other file is written under overrides/ and has no manifest entry.
C11_ArchivePartition ==
    \A j \in DOMAIN zipJobs :
        \A p \in zipJobs[j].files :
            IF p \in DOMAIN resolvedFiles
            THEN /\ p \notin overrides(zipJobs[j])
                 /\ Cardinality(ManifestEntries(zipJobs[j], p)) = 1
            ELSE /\ p \in overrides(zipJobs[j])
                 /\ ManifestEntries(zipJobs[j], p) = {}

\* an archive was written that holds a resolved file and an override
C11_Witness ==
    /\ zipTask = "succeeded"
    /\ \E p, q \in zipJobs[1].files :
          /\ p \in DOMAIN resolvedFiles
          /\ q \notin DOMAIN resolvedFiles

\* C12: the task is non-abortable from the start of CollectingFiles and all
\* through ComputingLocalHashes; it is abortable again once the local hashes
\* are staged, and stays abortable while the remote request and the archive
\* writer run.
C12_AbortableWindow ==
    /\ pc \in {"inCollect", "inLoop", "awaitUpdate"} => ~abortable
    /\ pc \in {"awaitApi", "awaitZip"} => abortable

\* the hashes are staged and the remote request is running
C12_Witness ==
    /\ exLast.op = "hashedRequest"
    /\ pc = "awaitApi"
    /\ abortable

\* C12 as written: non-abortable when CollectingFiles begins, abortable as
\* soon as the file scan has completed and in every later running stage
\* (ComputingLocalHashes, AwaitingRemoteResolution, BuildingArchive).
C12_AbortableAfterScan ==
    /\ pc = "inCollect" => ~abortable
    /\ pc \in {"inLoop", "awaitUpdate", "awaitApi", "awaitZip"} => abortable

\* the remote request or the archive writer is running
SubTaskActive == apiTask = "running" \/ zipTask \in {"running", "aborting"}

\* the step is a call of abort()
AbortCalled == abortCalls' = abortCalls + 1

\* C13: abort() while a sub-task is active forwards the abort to it, puts the
\* pipeline in Aborted and returns true; abort() while no sub-task is active
\* returns false and changes no pipeline state; in both cases files, the
\* pending-hash map and the resolved-file table are not modified.
C13_AbortForwardsOrRefuses ==
    [][AbortCalled =>
          /\ UNCHANGED <<files, pendingHashes, resolvedFiles>>
          /\ IF SubTaskActive
             THEN /\ exLast'.ret = TRUE
                  /\ apiTask = "running" => apiTask' = "aborted"
                  /\ zipTask = "running" => zipTask' = "aborting"
                  /\ emitted' = Append(emitted, Emission("aborted", ""))
             ELSE /\ exLast'.ret = FALSE
                  /\ UNCHANGED <<pc, abortable, task, apiTask, zipTask, emitted,
                                 statusLog>>]_vars

(***************************************************************************)
(* Claims about the catalog's update, dispatch and tickets                 *)
(***************************************************************************)

RowsOf(id) == {j \in DOMAIN m_resources : m_resources[j].id = id}

Dispatched == parseTasks' \ parseTasks

\* C20: tickets are minted in strictly increasing order: every dispatch gets
\* a ticket at or above the counter value before it and below the value after
\* it, later rows of one batch get larger tickets, no two dispatches carry
\* the same ticket, and every key of the active-task map is smaller than the
\* next ticket to be minted.
C20_TicketsStrictlyIncrease ==
    /\ [](\A t \in DOMAIN m_active_parse_tasks : t < m_next_resolution_ticket)
    /\ [](\A a, b \in parseTasks : a.ticket = b.ticket => a = b)
    /\ [][/\ m_next_resolution_ticket' =
                m_next_resolution_ticket + Cardinality(Dispatched)
          /\ \A t \in Dispatched :
                /\ m_next_resolution_ticket <= t.ticket
                /\ t.ticket < m_next_resolution_ticket'
                /\ \A u \in parseTasks : u.ticket < t.ticket
          /\ \A a, b \in Dispatched : a.ticket = b.ticket => a = b
          /\ \A k, j \in DOMAIN m_resources' :
                (/\ k < j
                 /\ \E t \in Dispatched : t.ticket = m_resources'[k].ticket
                 /\ \E u \in Dispatched : u.ticket = m_resources'[j].ticket)
                   => m_resources'[k].ticket < m_resources'[j].ticket]_vars

\* two parse tasks dispatched by one update are both in flight
C20_Witness ==
    /\ m_next_resolution_ticket = 2
    /\ DOMAIN m_active_parse_tasks = {0, 1}
    /\ Len(m_resources) = 2
    /\ m_resources[1].ticket = 0
    /\ m_resources[2].ticket = 1

(***************************************************************************)
(* Claims about the icon list's reconciliation and watching                *)
(***************************************************************************)

\* the step is a call of directoryChanged that got as far as its scan
Reconciled == icLast'.op = "directoryChanged" /\ ~icLast'.early

\* C14: in a reconciliation pass, with tracked the FileBased filenames of the
\* list before the pass and scanned the result of the scan, toRemove is
\* tracked minus scanned, toAdd is scanned minus tracked, the two are
\* disjoint, and (tracked minus toRemove) plus toAdd is the scanned set.
C14_ReconcileDifferences ==
    [][Reconciled =>
          LET tracked == currentSetOf(m_icons)
              scanned == icLast'.newSet
          IN /\ icLast'.toAdd \cap icLast'.toRemove = {}
             /\ icLast'.toRemove = tracked \ scanned
             /\ icLast'.toAdd = scanned \ tracked
             /\ (tracked \ icLast'.toRemove) \cup icLast'.toAdd = scanned]_vars

\* a pass had a file to add and a file to remove
C14_Witness ==
    /\ icLast.op = "directoryChanged"
    /\ icLast.toAdd # {}
    /\ icLast.toRemove # {}

\* C15: when the scan of a reconciliation pass fails (a directory cannot be
\* listed, or the root is missing and cannot be created), the tracked set is
\* left as it was.
C15_FailedScanKeepsTracked ==
    [][icLast'.op = "directoryChanged" /\ (icLast'.scanFailed \/ icLast'.early)
          => currentSetOf(m_icons') = currentSetOf(m_icons)]_vars

\* C16: when the watch is started (and every directory can be listed), a
\* failed registration does not keep the directories below from being
\* tried, and the watching flag is true only if every path tried was
\* registered.
C16_WatchingOnlyIfAllRegistered ==
    (icLast.op = "directoryChanged" /\ icLast.started /\ ~icLast.scanFailed) =>
        /\ \A d \in icLast.tried : SubdirsOf(d) \cap fsDirs \subseteq icLast.tried
        /\ m_isWatching => icLast.tried \subseteq watched

\* C17: after directoryChanged(p) with p neither the watched root nor inside
\* it (and with every directory listed, the root present when the watch is
\* started and every registration tried accepted), the watched root is p, every path registered before is
\* de-registered, and the registered directories are p and the directories
\* below it.
C17_RootChangeRewatches ==
    [][(/\ icLast'.op = "directoryChanged"
        /\ icLast'.path # m_dir
        /\ ~Inside(icLast'.path, m_dir)
        /\ ~icLast'.scanFailed
        /\ ~icLast'.early
        /\ icLast'.tried # {}
        /\ icLast'.tried \subseteq watched')
          => /\ m_dir' = icLast'.path
             /\ \A w \in watched : ~Inside(w, icLast'.path) => w \notin watched'
             /\ watched' \cap IconDirs = {d \in fsDirs' : Inside(d, icLast'.path)}]_vars

(***************************************************************************)
(* Claims about bulk removal from the catalog                              *)
(***************************************************************************)

\* the rows of s outside `gone`, in their order
RowsOutside(s, gone) ==
    [k \in 1..(Len(s) - Cardinality(gone \cap DOMAIN s)) |->
        s[SetToSeq(DOMAIN s \ gone)[k]]]

\* C21: deleteResources over a set of positions, handed in in any order,
\* removes exactly the resources that were at the positions whose removal
\* succeeded (the others stay, in their order), and returns true if and
\* only if every requested removal succeeded.
C21_BulkRemoval ==
    [][catLast'.op = "delete"
          => /\ m_resources' = RowsOutside(m_resources, catLast'.ok)
             /\ catLast'.ret <=> (catLast'.ok = catLast'.rows)]_vars

\* two positions were requested, the removal of the lower one succeeded and
\* that of the higher one failed: the call returned false and one row is gone
C21_Witness ==
    /\ catLast.op = "delete"
    /\ Cardinality(catLast.rows) = 2
    /\ Cardinality(catLast.ok) = 1
    /\ \E k \in catLast.rows \ catLast.ok : \A j \in catLast.ok : j < k
    /\ ~catLast.ret
    /\ Len(m_resources) = 1

(***************************************************************************)
(* Claims about local hashing and the pending-hash map                     *)
(***************************************************************************)

\* the step is collectHashes() running to its end
HashingEnds == exLast'.op \in {"hashedRequest", "hashedNoRequest"}

\* tracked resources with metadata whose URL is on an allowed host, readable
\* and not excluded by the filter
LocallyResolvable == {p \in Paths : fileClass[p] = "modLocal"}

\* tracked resource files that cannot be opened or fully read
UnreadableFiles == {p \in Paths : fileClass[p] = "modLocalUnreadable"}

\* C22: when hashing has finished, every tracked resource with metadata on
\* an allowed host (readable, not excluded) is in the resolved-file table
\* with the hash of the local index and is not staged; the staged set and the
\* key set of the resolved-file table are disjoint; and the request, when one
\* is issued, carries one hash per staged file and nothing else.
C22_LocalMetadataNotQueried ==
    [][HashingEnds =>
          /\ \A p \in LocallyResolvable :
                /\ p \in DOMAIN resolvedFiles'
                /\ resolvedFiles'[p].origin = "index"
                /\ p \notin DOMAIN pendingHashes'
          /\ DOMAIN pendingHashes' \cap DOMAIN resolvedFiles' = {}
          /\ exLast'.op = "hashedRequest" =>
                LET request == apiRequests'[Len(apiRequests')]
                    keys    == SetToSeq(DOMAIN pendingHashes')
                IN /\ Len(request) = Len(keys)
                   /\ \A k \in DOMAIN request : request[k] = pendingHashes'[keys[k]]]_vars

\* a request was issued for a staged file while another collected file was
\* resolved from the local index
C22_Witness ==
    /\ exLast.op = "hashedRequest"
    /\ \E p \in LocallyResolvable \cap files : p \in DOMAIN resolvedFiles
    /\ pendingHashes # EmptyMap

\* C23: a tracked resource file that cannot be opened or read does not make
\* hashing fail: nothing is emitted by collectHashes, every readable resource
\* is still resolved or staged, and in every archive that is built the file
\* has no manifest entry and is an override member.
C23_UnreadableFileIsOverride ==
    /\ [][HashingEnds =>
              /\ emitted' = emitted
              /\ pc' \in {"awaitApi", "awaitZip"}
              /\ UnreadableFiles \cap DOMAIN resolvedFiles' = {}
              /\ \A p \in files :
                    eligible(p) /\ readable(p)
                        => p \in DOMAIN resolvedFiles' \cup DOMAIN pendingHashes']_vars
    /\ [](\A j \in DOMAIN zipJobs : \A p \in UnreadableFiles \cap zipJobs[j].files :
              /\ \A k \in DOMAIN zipJobs[j].index : zipJobs[j].index[k].path # p
              /\ p \in overrides(zipJobs[j]))

\* an archive is being built from an unreadable resource file and a file that
\* has a manifest entry
C23_Witness ==
    /\ zipJobs # <<>>
    /\ UnreadableFiles \cap zipJobs[1].files # {}
    /\ zipJobs[1].index # <<>>

\* the step ends the remote resolution stage: the request succeeded (with a
\* parsable or an unparsable response) or failed at transport level
ResolutionEnds == apiTask = "running" /\ apiTask' \in {"succeeded", "failed"}

\* C24: the pending-hash map is empty once the remote resolution stage has
\* finished, whether it completed, failed at transport level or failed on an
\* unparsable response.
C24_PendingClearedAfterResolution ==
    [][ResolutionEnds => pendingHashes' = EmptyMap]_vars

(***************************************************************************)
(* Claims about the events a consumer of the export observes               *)
(***************************************************************************)

\* C27: the step state reported for the archive step ends as succeeded only
\* if the archive writer succeeded; when the writer failed or was aborted no
\* event with state succeeded has been reported, and after a failure the last
\* reported state is failed.
C27_StepStateFollowsWriter ==
    /\ (stepLog # <<>> /\ stepLog[Len(stepLog)] = StepSucceeded) => zipTask = "succeeded"
    /\ zipTask \in {"failed", "aborted"} => StepSucceeded \notin Range(stepLog)
    /\ zipTask = "failed" => stepLog # <<>> /\ stepLog[Len(stepLog)] = StepFailed

\* C30: a run emits at most one terminal outcome: when abort() has been
\* called once, while the archive writer or the remote request was running,
\* aborted is emitted exactly once and nothing else is.
C30_OneTerminalOutcome ==
    (abortCalls = 1 /\ (zipTask \in {"aborting", "aborted"} \/ apiTask = "aborted"))
        => emitted = <<Emission("aborted", "")>>

(***************************************************************************)
(* Claims about the manifest and about running the export again            *)
(***************************************************************************)

\* the step starts the archive writer (and so generates the manifest)
ArchiveStarts == Len(zipJobs') = Len(zipJobs) + 1

\* the resolved file p was declared client-only by its metadata
DeclaredClientOnly(resolved, p) ==
    resolved[p].origin = "index" /\ sideOf[p] = ClientSide

\* C25: the manifest has one entry per resolved file.  If optional handling
\* is enabled and the path ends in .disabled, the entry's path has the suffix
\* stripped and client and server are optional, otherwise the path is
\* unchanged and both are required; then server is unsupported if and only if
\* the declared side is client-only; client is never unsupported.
C25_ManifestEntry ==
    [][ArchiveStarts =>
          LET index == zipJobs'[Len(zipJobs')].index
              keys  == SetToSeq(DOMAIN resolvedFiles')
          IN /\ Len(index) = Len(keys)
             /\ \A k \in DOMAIN keys :
                   LET p        == keys[k]
                       stripped == optionalFiles /\ endsInDisabled(p)
                       base     == IF stripped THEN EnvOptional ELSE EnvRequired
                   IN /\ index[k].path = (IF stripped THEN completeBaseName(p) ELSE p)
                      /\ stripped => index[k].path # p
                      /\ index[k].client = base
                      /\ index[k].client # EnvUnsupported
                      /\ index[k].server =
                             (IF DeclaredClientOnly(resolvedFiles', p)
                              THEN EnvUnsupported ELSE base)]_vars

\* a manifest lists a disabled client-only file as optional on the client and
\* unsupported on the server, next to a server-only file that is required on
\* both sides
C25_Witness ==
    /\ zipJobs # <<>>
    /\ \E k, l \in DOMAIN zipJobs[1].index :
          /\ zipJobs[1].index[k].client = EnvOptional
          /\ zipJobs[1].index[k].server = EnvUnsupported
          /\ zipJobs[1].index[l].client = EnvRequired
          /\ zipJobs[1].index[l].server = EnvRequired
          /\ \E p \in Paths : sideOf[p] = ServerSide

\* the {path, hashes} of the file entries of a manifest
FileEntries(job) ==
    {[path |-> job.index[k].path, sha512 |-> job.index[k].sha512] : k \in DOMAIN job.index}

\* C26: when the export is run twice on the same object (the root and the
\* metadata do not change) and the remote answers the same, the two manifests
\* have the same set of file entries; and in the second run the collected
\* files, the pending hashes and the resolved files are, when hashing ends,
\* what a first run makes them.
C26_RerunSameManifest ==
    /\ []((Len(zipJobs) = 2 /\ firstRun.response = apiResponse)
             => FileEntries(zipJobs[1]) = FileEntries(zipJobs[2]))
    /\ [][firstRun.ended /\ exLast'.op \in {"hashedRequest", "hashedNoRequest"}
             => /\ files' = collectFileList
                /\ resolvedFiles' = resolveFromIndex(allResources)
                /\ pendingHashes' = stagePending(collectFileList, resolvedFiles')]_vars

\* both runs wrote an archive whose manifest has an entry resolved by the
\* remote and one resolved from the local index
C26_Witness ==
    /\ Len(zipJobs) = 2
    /\ firstRun.response = apiResponse
    /\ zipTask = "succeeded"
    /\ \E k, l \in DOMAIN zipJobs[2].index :
          /\ zipJobs[2].index[k].origin = "api"
          /\ zipJobs[2].index[l].origin = "index"

(***************************************************************************)
(* Claims about the icon list after a pass                                 *)
(***************************************************************************)

\* C28: after a reconciliation pass that ran its scan without a failed
\* listing (every file loads as an icon), the filenames of the FileBased
\* images in the list are exactly the scanned files, also when the pass
\* changed the watched root: no FileBased entry of the old root survives.
C28_TrackedEqualsScanned ==
    [][(/\ icLast'.op = "directoryChanged"
        /\ ~icLast'.early
        /\ ~icLast'.scanFailed)
          => currentSetOf(m_icons') = icLast'.newSet]_vars

\* C29: when the list is watching and a pass runs for a notification that
\* names the root or a directory inside it (every directory listed, every
\* registration tried accepted), every subdirectory that exists under the
\* root is registered with the watcher afterwards.
C29_NewSubdirectoryWatched ==
    [][(/\ icLast'.op = "directoryChanged"
        /\ m_isWatching
        /\ Inside(icLast'.path, m_dir)
        /\ ~icLast'.early
        /\ ~icLast'.scanFailed
        /\ icLast'.tried \subseteq watched')
          => \A d \in fsDirs' : (Inside(d, m_dir') /\ d # m_dir') => d \in watched']_vars

(***************************************************************************)
(* Claims about the end of an export run                                   *)
(***************************************************************************)

\* executeTask() has been called
RunStarted == pc # "ready"

\* emitSucceeded, emitFailed or emitAborted has been called
TerminalEmitted ==
    \E i \in DOMAIN emitted : emitted[i].kind \in {"succeeded", "failed", "aborted"}

\* C31: every started export run eventually emits a terminal outcome
\* (succeeded, failed or aborted), given that each started sub-task (update of
\* the resource list, remote request, archive writer) eventually ends; also
\* when update() returned false because an update was underway, and when a
\* sub-task ends by being aborted.
C31_RunEndsWithOutcome == RunStarted ~> TerminalEmitted

\* update() returned false, and the run has ended with an outcome
C31_Witness ==
    /\ updateReturned = "false"
    /\ TerminalEmitted
    /\ pc = "returned"

(***************************************************************************)
(* Claims about an export root that changes during the run                 *)
(***************************************************************************)

\* C32: when the manifest is generated, every key of the resolved-file table
\* is the relative path of a file in the collected file list, also when the
\* content of the root changes between the file collection and the update of
\* the resource list; so every file entry of the manifest names a file that
\* was collected and is excluded from the overrides.
C32_ResolvedKeysAreCollected ==
    \A j \in DOMAIN zipJobs :
        /\ zipJobs[j].exclude \subseteq zipJobs[j].files
        /\ \A k \in DOMAIN zipJobs[j].index :
               zipJobs[j].index[k].path \in zipJobs[j].files

(***************************************************************************)
(* Claims about the name index of the icon list                            *)
(***************************************************************************)

\* C33: after every operation on the icon list (addThemeIcon, addIcon, every
\* round of the removal loop of directoryChanged, sortIconList, and so
\* directoryChanged, which is made of these) the name index maps the key of
\* the entry in row i to i for every i, keys are unique, and the index has no
\* key that is not in the list.
C33_IndexMatchesList ==
    /\ \A i \in DOMAIN m_icons :
           m_icons[i].key \in DOMAIN m_nameIndex /\ m_nameIndex[m_icons[i].key] = i
    /\ \A i, j \in DOMAIN m_icons : m_icons[i].key = m_icons[j].key => i = j
    /\ DOMAIN m_nameIndex = KeysOf(m_icons)

\* the removal round for the file "default" has removed the row of "grass";
\* "default" is still in the list, in the first of the two rows left
C33_Witness ==
    /\ icLast.op = "removalRound"
    /\ icLast.path = KeyDefault
    /\ icLast.toRemove = {KeyGrass}
    /\ KeyDefault \in DOMAIN m_nameIndex
    /\ m_nameIndex[KeyDefault] = 1
    /\ Len(m_icons) = 2

(***************************************************************************)
(* Claims about the watches on icon files                                  *)
(***************************************************************************)

\* C34: after every reconciliation pass of the icon list that ends with the
\* watch active, the file of every file-based entry of the list is registered
\* with the watcher; also the entries that were in the list before the pass,
\* and also when the pass registered the watch anew (stopWatching followed by
\* startWatching).
C34_FileEntriesWatched ==
    (icLast.op = "directoryChanged" /\ ~icLast.early /\ ~icLast.scanFailed /\ m_isWatching)
        => currentSetOf(m_icons) \subseteq watched
====
